---- MODULE Spec2Model ----
(***************************************************************************)
(* Barycentric Lagrange basis and companion-pencil root solver of polyrat  *)
(* (src/polyrat/lagrange.py).                                              *)
(*                                                                         *)
(* Arrays are sequences (index j of the code is index j+1 here); matrices  *)
(* are functions on (0..n) \X (0..n), indexed as in the code.              *)
(*                                                                         *)
(* A number is a record [k, n, d, ph]:                                     *)
(*   k = "fin": the exact value (n/d) * i^ph, n >= 0, d >= 1, in lowest     *)
(*              terms; zero is n = 0, d = 1, ph = 0;                       *)
(*   k = "abs": a finite nonzero value of phase ph quarter turns whose     *)
(*              magnitude is not tracked (results of dividing by a norm,   *)
(*              of square roots and of products of such values);           *)
(*   k = "inf": an infinity of real floating-point arithmetic;             *)
(*   k = "nan": a value with a NaN component (np.isfinite is False and     *)
(*              np.angle is NaN);                                          *)
(*   k = "unk": a finite sum of two nonzero values of different phases.    *)
(* Callers pass numpy arrays (a Python list makes line 25 raise TypeError  *)
(* before anything else is decided); np.complex is the alias of complex    *)
(* it was in the NumPy releases the package was written for.  Phases are   *)
(* exact: rounding of the order of 1e-16 in np.exp(-1j*angle) is below the *)
(* tolerance 1e-10 the code itself applies at line 48.                     *)
(***************************************************************************)
EXTENDS Integers, Sequences, FiniteSets, TLC

\* Largest array length explored.
MaxN == 3

\* ------------------------------------------------------------------ numbers

Num(k, n, d, ph) == [k |-> k, n |-> n, d |-> d, ph |-> ph]

Zero == Num("fin", 0, 1, 0)
One == Num("fin", 1, 1, 0)
ImagI == Num("fin", 1, 1, 1)
Inf == Num("inf", 0, 0, 0)
Nan == Num("nan", 0, 0, 0)
Unk == Num("unk", 0, 0, 0)

Mag(ph) == Num("abs", 0, 0, ph % 4)

IAbs(z) == IF z < 0 THEN -z ELSE z

RECURSIVE Gcd(_, _)
Gcd(a, b) == IF b = 0 THEN a ELSE Gcd(b, a % b)

\* The real rational p/q (q # 0) in lowest terms.
Rat(p, q) ==
    IF p = 0 THEN Zero
    ELSE LET g == Gcd(IAbs(p), IAbs(q))
         IN Num("fin", IAbs(p) \div g, IAbs(q) \div g,
                IF (p < 0) # (q < 0) THEN 2 ELSE 0)

FromInt(z) == Rat(z, 1)

\* The integer held by an exact real number of denominator 1.
ToInt(x) == IF x.ph = 2 THEN -x.n ELSE x.n

IsZero(x) == x.k = "fin" /\ x.n = 0

\* np.isfinite
IsFinite(x) == x.k \in {"fin", "abs", "unk"}

IsNonzeroFinite(x) == IsFinite(x) /\ ~IsZero(x)

\* A finite value on the non-negative real axis.
IsRealNonNeg(x) == IsZero(x) \/ (x.k \in {"fin", "abs"} /\ x.ph = 0)

\* ------------------------------------------------------- float arithmetic

\* A product of complex values as matmul and *= compute it.  An infinity
\* times zero is NaN; an infinity times a value on the real or imaginary
\* axis has a NaN component (inf*0 in the cross term).
MulC(x, y) ==
    IF x.k = "nan" \/ y.k = "nan" THEN Nan
    ELSE IF x.k = "inf" \/ y.k = "inf" THEN Nan
    ELSE IF IsZero(x) \/ IsZero(y) THEN Zero
    ELSE IF x.k = "unk" \/ y.k = "unk" THEN Unk
    ELSE IF x.k = "fin" /\ y.k = "fin"
         THEN LET g == Gcd(x.n * y.n, x.d * y.d)
              IN Num("fin", (x.n * y.n) \div g, (x.d * y.d) \div g,
                     (x.ph + y.ph) % 4)
    ELSE Mag(x.ph + y.ph)

\* A sum of two values, as matmul accumulates it.
AddC(x, y) ==
    IF x.k = "nan" \/ y.k = "nan" THEN Nan
    ELSE IF x.k = "inf" \/ y.k = "inf" THEN Nan
    ELSE IF IsZero(x) THEN y
    ELSE IF IsZero(y) THEN x
    ELSE IF x.k # "unk" /\ y.k # "unk" /\ x.ph = y.ph THEN Mag(x.ph)
    ELSE Unk

\* wj/aj for |aj| > 0.
DivC(w, a) ==
    IF w.k = "nan" \/ a.k = "nan" THEN Nan
    ELSE IF a.k = "inf" THEN (IF w.k = "inf" THEN Nan ELSE Zero)
    ELSE IF w.k = "inf" THEN Inf
    ELSE IF IsZero(w) THEN Zero
    ELSE IF w.k = "unk" \/ a.k = "unk" THEN Unk
    ELSE Mag(w.ph + 4 - a.ph)

\* np.sqrt(np.abs(x))
SqrtAbs(x) ==
    IF x.k = "nan" THEN Nan
    ELSE IF x.k = "inf" THEN Inf
    ELSE IF IsZero(x) THEN Zero
    ELSE IF x = One THEN One
    ELSE Mag(0)

\* 1/x for a real float x: 1/0 is inf (a warning, not an error).
Recip(x) ==
    IF x.k = "nan" THEN Nan
    ELSE IF x.k = "inf" THEN Zero
    ELSE IF IsZero(x) THEN Inf
    ELSE IF x.k = "fin" THEN Num("fin", x.d, x.n, (4 - x.ph) % 4)
    ELSE Mag(4 - x.ph)

\* np.abs(a) > 0 (False for NaN)
AbsGtZero(a) == a.k = "inf" \/ IsNonzeroFinite(a)

\* np.linalg.norm(v), by class: the 2-norm is NaN if an entry is NaN, else
\* inf if an entry is infinite, else zero exactly when every entry is zero
\* (the empty vector included).
NormClass(v) ==
    IF \E j \in 1..Len(v) : v[j].k = "nan" THEN "nan"
    ELSE IF \E j \in 1..Len(v) : v[j].k = "inf" THEN "inf"
    ELSE IF \A j \in 1..Len(v) : IsZero(v[j]) THEN "zero"
    ELSE "pos"

\* x / norm
DivByNorm(x, nc) ==
    IF nc = "nan" THEN Nan
    ELSE IF nc = "inf" THEN (IF x.k = "inf" THEN Nan ELSE Zero)
    ELSE IF nc = "zero" THEN Nan
    ELSE IF IsZero(x) THEN Zero
    ELSE Mag(x.ph)

\* ----------------------------------------------------------------- matrices

Idx(n) == 0..n

RECURSIVE DotC(_, _, _, _, _)
\* sum over k = 0..m of A[i,k] * B[k,j]
DotC(A, B, i, j, m) ==
    IF m = 0 THEN MulC(A[i, 0], B[0, j])
    ELSE AddC(DotC(A, B, i, j, m - 1), MulC(A[i, m], B[m, j]))

\* A @ B for (n+1) x (n+1) matrices
MatMul(A, B, n) == [i \in Idx(n), j \in Idx(n) |-> DotC(A, B, i, j, n)]

\* np.diag(s) for s indexed 0..n
Diag(s, n) == [i \in Idx(n), j \in Idx(n) |-> IF i = j THEN s[i] ELSE Zero]

\* ------------------------------------------------------------ lagrange_roots

DimCheckNonEmpty(nodes, weights, coef) ==
    Len(nodes) >= 1 /\ Len(nodes) = Len(weights) /\ Len(nodes) = Len(coef)

\* Line 13: the dimension assertion passes.
DimCheck(nodes, weights, coef) ==
    Len(nodes) = Len(weights) /\ Len(nodes) = Len(coef)

\* Lines 25-26, `v = v / np.linalg.norm(v)`: the quotient is a new array that
\* the local name is rebound to; the array the caller passed is not written.
ScaleInPlace(v) ==
    LET q == [j \in 1..Len(v) |-> DivByNorm(v[j], NormClass(v))]
    IN [local |-> q, arg |-> q]

ScaleStmt(v) ==
    [local |-> [j \in 1..Len(v) |-> DivByNorm(v[j], NormClass(v))],
     arg |-> v]

\* Lines 17-18 and 28-29: C0 with diag(nodes) in the trailing block, the
\* coefficients in row 0 and the weights in column 0.
PencilA(nodes, weights, coef, n) ==
    [i \in Idx(n), j \in Idx(n) |->
        IF i = 0 /\ j = 0 THEN Zero
        ELSE IF i = 0 THEN coef[j]
        ELSE IF j = 0 THEN weights[i]
        ELSE IF i = j THEN nodes[i]
        ELSE Zero]

\* Lines 21-22: C1 = identity with C1[0,0] = 0.
PencilB(n) ==
    [i \in Idx(n), j \in Idx(n) |-> IF i = j /\ i > 0 THEN One ELSE Zero]

\* Line 35: one entry of the balancing vector.
BalanceEntry(wj, aj) ==
    IF AbsGtZero(aj) THEN SqrtAbs(DivC(wj, aj)) ELSE One

\* Line 35: s = [1.] + [...], indexed 0..n.
BalanceVector(weights, coef, n) ==
    [i \in Idx(n) |-> IF i = 0 THEN One ELSE BalanceEntry(weights[i], coef[i])]

\* Line 36: C0 = diag(1/s) @ C0 @ diag(s).
Balance(C0, s, n) ==
    MatMul(MatMul(Diag([i \in Idx(n) |-> Recip(s[i])], n), C0, n),
           Diag(s, n), n)

\* Lines 39-40: np.isfinite(np.angle(z)); np.angle(0) is 0.
AngleFinite(z) == IsFinite(z)

\* Line 41: np.exp(-1j*angle) for the angle of z.
RotationFactorPlus(z) ==
    IF IsZero(z) THEN One ELSE Num("fin", 1, 1, z.ph % 4)

RotationFactor(z) ==
    IF IsZero(z) THEN One ELSE Num("fin", 1, 1, (4 - z.ph) % 4)

\* Line 41: C0[1:,0] *= np.exp(-1j*angle).
Rotate(C0, n) ==
    [i \in Idx(n), j \in Idx(n) |->
        IF j = 0 /\ i >= 1 THEN MulC(C0[i, j], RotationFactor(C0[1, 0]))
        ELSE C0[i, j]]

\* Line 48: np.abs(C0[1,0].imag) < 1e-10.
ImagNegligible(z) == IsZero(z) \/ (z.k \in {"fin", "abs"} /\ z.ph \in {0, 2})

NoMatrix == <<>>

\* lagrange_roots (lines 6-91).  `raised` is the exception that ends the
\* call ("none" for a return), `line` the source line that raised it.
\* hessenberg (line 58), warnings (line 84) and eigvals (lines 78, 87) are
\* bound nowhere in the module (lines 1-2 import numpy and PolynomialBasis
\* only), so evaluating either name raises NameError.  Lines 50-57 before
\* the first of them are numpy arithmetic on local arrays of matching
\* shapes (n >= 1 there): they raise nothing and write no argument.
lagrange_roots(nodes, weights, coef, deflation) ==
    LET n == Len(nodes)
    IN
    IF ~DimCheck(nodes, weights, coef)
    THEN [op |-> "lagrange_roots",
          args |-> [nodes |-> nodes, weights |-> weights, coef |-> coef,
                    deflation |-> deflation],
          after |-> [nodes |-> nodes, weights |-> weights, coef |-> coef],
          raised |-> "AssertionError", line |-> 13, built |-> FALSE,
          C0 |-> NoMatrix, C1 |-> NoMatrix, balanced10 |-> Nan,
          reachedPhase |-> FALSE, deflation |-> deflation,
          printed |-> FALSE, path |-> "none", value |-> <<>>]
    ELSE
    LET sc == ScaleStmt(coef)
        sw == ScaleStmt(weights)
        A0 == PencilA(nodes, sw.local, sc.local, n)
        B0 == PencilB(n)
        s == BalanceVector(sw.local, sc.local, n)
        A1 == Balance(A0, s, n)
        base == [op |-> "lagrange_roots",
                 args |-> [nodes |-> nodes, weights |-> weights,
                           coef |-> coef, deflation |-> deflation],
                 after |-> [nodes |-> nodes, weights |-> sw.arg,
                            coef |-> sc.arg],
                 built |-> TRUE, C1 |-> B0, value |-> <<>>]
    IN
    IF n = 0
    THEN \* line 39: C0 is 1 x 1, C0[1,0] is out of bounds
         base @@ [raised |-> "IndexError", line |-> 39, C0 |-> A1,
                  balanced10 |-> Nan, reachedPhase |-> FALSE,
                  deflation |-> deflation, printed |-> FALSE,
                  path |-> "none"]
    ELSE
    LET z == A1[1, 0]
        rotated == AngleFinite(z)
        A2 == IF rotated THEN Rotate(A1, n) ELSE A1
        defl == IF rotated THEN deflation ELSE FALSE
        phase == base @@ [C0 |-> A2, balanced10 |-> z, reachedPhase |-> TRUE,
                          deflation |-> defl, printed |-> ~rotated]
    IN
    IF defl
    THEN IF ~ImagNegligible(A2[1, 0])
         THEN phase @@ [raised |-> "AssertionError", line |-> 48,
                        path |-> "deflation"]
         ELSE phase @@ [raised |-> "NameError", line |-> 58,
                        path |-> "deflation"]
    ELSE phase @@ [raised |-> "NameError", line |-> 84, path |-> "fallback"]

\* --------------------------------------------------- LagrangePolynomialBasis

\* An array argument: its numpy shape and its entries in flattened order.
\* len(a) is the first dimension; a.flatten() has Len(data) entries.
PyLen(a) == a.shape[1]

Flatten(a) == [j \in 1..Len(a.data) |-> FromInt(a.data[j])]

\* Line 101 (and line 111): len(nodes) == len(flattened).
OneDimCheck(a) == PyLen(a) = Len(a.data)

RECURSIVE ProdDiff(_, _, _, _)
\* np.prod(nodes[k] - nodes[lo..hi]) over integer nodes; 1 for an empty slice
ProdDiff(nodes, k, lo, hi) ==
    IF lo > hi THEN 1
    ELSE (ToInt(nodes[k]) - ToInt(nodes[hi])) * ProdDiff(nodes, k, lo, hi - 1)

\* 1./p for an integer product p: division by zero gives inf
RecipInt(p) == IF p = 0 THEN Inf ELSE Rat(1, p)

\* Lines 105-107: the barycentric weights.
BaryWeights(nodes) ==
    [k \in 1..Len(nodes) |->
        RecipInt(ProdDiff(nodes, k, 1, k - 1)
                 * ProdDiff(nodes, k, k + 1, Len(nodes)))]

\* Line 115: one entry w/(x - n) for integer x and n.
BasisEntry(w, x, n) ==
    IF w.k = "nan" THEN Nan
    ELSE IF x = n THEN (IF IsZero(w) THEN Nan ELSE Inf)
    ELSE IF w.k = "inf" THEN Inf
    ELSE MulC(w, Rat(1, x - n))

RECURSIVE Hstack(_)
\* np.hstack of one-dimensional arrays: their concatenation, one-dimensional
Hstack(cols) == IF cols = <<>> THEN <<>> ELSE Head(cols) \o Hstack(Tail(cols))

\* Lines 110-120.  x is one-dimensional, so is every w/(x - n), and so is
\* their hstack; np.all(..., axis = 1) on a one-dimensional array raises
\* AxisError.  With no node at all np.hstack raises ValueError.
vandermonde(nodes, weights, X) ==
    LET x == X.data
        base == [op |-> "vandermonde", args |-> X, value |-> <<>>]
    IN
    IF ~OneDimCheck(X)
    THEN base @@ [raised |-> "AssertionError", line |-> 111, V |-> <<>>,
                  ndim |-> 0]
    ELSE IF Len(nodes) = 0
    THEN base @@ [raised |-> "ValueError", line |-> 115, V |-> <<>>,
                  ndim |-> 0]
    ELSE
    LET cols == [c \in 1..Len(nodes) |->
                    [r \in 1..Len(x) |->
                        BasisEntry(weights[c], x[r], ToInt(nodes[c]))]]
        V == Hstack(cols)
    IN base @@ [raised |-> "AxisError", line |-> 116, V |-> V, ndim |-> 1]

\* ------------------------------------------------------------------- inputs

MaxPts == 2

NodeVals == {-1, 0, 1}

Seqs(S, m) == UNION {[1..k -> S] : k \in 0..m}

\* The shapes an array of N entries is passed in: one-dimensional, or r x c
\* (N x 1 is a column, 1 x N a row).
Shapes(N, m) ==
    {<<N>>} \cup {sh \in (1..m) \X (1..m) : sh[1] * sh[2] = N}

\* Array arguments of at most m integer entries.
Arrays(m) ==
    UNION {{[shape |-> sh, data |-> d] : sh \in Shapes(Len(d), m)} :
           d \in Seqs(NodeVals, m)}

\* Coefficients of (x - 1/5)(x + 3/10) at the nodes -1, 0, 1.
QuadCoef == <<Rat(21, 25), Rat(-3, 50), Rat(26, 25)>>

\* Coefficient vectors passed to roots().
CoefInputs == Seqs({Zero, One}, MaxN) \cup {QuadCoef}

\* Entries of the weight vectors passed to lagrange_roots directly.
SolverVals == {Zero, One, ImagI, Nan, Inf}

\* The first n of the nodes -1, 0, 1, 2, ...
FirstNodes(n) == [j \in 1..n |-> FromInt(j - 2)]

\* -------------------------------------------------------------------- state

VARIABLES
    basis,     \* the LagrangePolynomialBasis the caller holds (nodes, weights)
    built,     \* the nodes and weights as __init__ left them
    seen,      \* the methods called on the basis since it was constructed
    frame      \* the call that has completed and not yet been returned from

vars == <<basis, built, seen, frame>>

NoBasis == [exists |-> FALSE, nodes |-> <<>>, weights |-> <<>>]

NoFrame == [op |-> "none"]

Init ==
    /\ basis = NoBasis
    /\ built = NoBasis
    /\ seen = {}
    /\ frame = NoFrame

\* LagrangePolynomialBasis(nodes), lines 99-107.  A failed assertion leaves
\* the caller without a new object.
Construct(a) ==
    /\ frame = NoFrame
    /\ IF OneDimCheck(a)
       THEN LET b == [exists |-> TRUE, nodes |-> Flatten(a),
                      weights |-> BaryWeights(Flatten(a))]
            IN /\ basis' = b
               /\ built' = b
               /\ seen' = {}
               /\ frame' = [op |-> "construct", args |-> a,
                            raised |-> "none", line |-> 107]
       ELSE /\ frame' = [op |-> "construct", args |-> a,
                         raised |-> "AssertionError", line |-> 101]
            /\ UNCHANGED <<basis, built, seen>>

\* basis.vandermonde(X), lines 109-120.
Evaluate(X) ==
    /\ frame = NoFrame
    /\ basis.exists
    /\ frame' = vandermonde(basis.nodes, basis.weights, X)
    /\ seen' = seen \cup {"vandermonde"}
    /\ UNCHANGED <<basis, built>>

\* basis.roots(coef, deflation), lines 122-125: self.nodes and self.weights
\* are passed by reference.
Roots(coef, deflation) ==
    /\ frame = NoFrame
    /\ basis.exists
    /\ LET r == lagrange_roots(basis.nodes, basis.weights, coef, deflation)
       IN /\ frame' = [r EXCEPT !.op = "roots"]
          /\ basis' = [basis EXCEPT !.nodes = r.after.nodes,
                                    !.weights = r.after.weights]
    /\ seen' = seen \cup {"roots"}
    /\ UNCHANGED built

\* lagrange_roots(nodes, weights, coef, deflation) called directly.
SolveDirect(nodes, weights, coef, deflation) ==
    /\ frame = NoFrame
    /\ frame' = lagrange_roots(nodes, weights, coef, deflation)
    /\ UNCHANGED <<basis, built, seen>>

\* The completed call returns or raises to its caller; its locals are gone.
Return ==
    /\ frame # NoFrame
    /\ frame' = NoFrame
    /\ UNCHANGED <<basis, built, seen>>

\* Calls are synchronous: the next one starts after the last has returned.
Idle == frame = NoFrame

CallConstruct == Idle /\ \E a \in Arrays(MaxN) : Construct(a)

CallEvaluate == Idle /\ \E X \in Arrays(MaxPts) : Evaluate(X)

CallRoots == Idle /\ \E c \in CoefInputs, d \in BOOLEAN : Roots(c, d)

CallSolve ==
    Idle /\ \E ln \in 0..MaxN, w \in Seqs(SolverVals, MaxN),
               c \in Seqs({Zero, One}, MaxN), d \in BOOLEAN :
                 SolveDirect(FirstNodes(ln), w, c, d)

Next ==
    \/ CallConstruct
    \/ CallEvaluate
    \/ CallRoots
    \/ Return

Spec == Init /\ [][Next]_vars

NextSolver ==
    \/ CallSolve
    \/ Return

SpecSolver == Init /\ [][NextSolver]_vars

\* =================================================================== claims

IsSolve == frame.op \in {"roots", "lagrange_roots"}

SameLengths(a) ==
    Len(a.nodes) = Len(a.weights) /\ Len(a.nodes) = Len(a.coef)

\* The dimension error: the assertion of line 13.
DimensionError == frame.raised = "AssertionError" /\ frame.line = 13

\* The invariant-violation error: the assertion of line 89.
InvariantViolation == frame.raised = "AssertionError" /\ frame.line = 89

Returned == frame.raised = "none"

Distinct(v) == \A i, j \in 1..Len(v) : i # j => v[i] # v[j]

ValueSet == {frame.value[j] : j \in 1..Len(frame.value)}

Nodes3 == <<FromInt(-1), FromInt(0), FromInt(1)>>

\* No roots() or lagrange_roots() call of the model returns a value: each
\* ends in the dimension error, the IndexError of line 39 or a NameError.
RootsNeverReturns == IsSolve => ~Returned

\* C1: with nodes [-1, 0, 1] the weights are [1/2, -1, 1/2], and roots() of
\* the node-wise values of (x - 1/5)(x + 3/10) returns the set {1/5, -3/10},
\* with deflation and without.
C1_AsClaimed ==
    (frame.op = "roots" /\ frame.args.nodes = Nodes3
        /\ frame.args.coef = QuadCoef)
    => /\ frame.args.weights = <<Rat(1, 2), Rat(-1, 1), Rat(1, 2)>>
       /\ Returned
       /\ ValueSet = {Rat(1, 5), Rat(-3, 10)}

\* C2: on a single-node basis roots() of a nonzero coefficient returns the
\* empty root set without raising, with deflation and without.
C2_AsClaimed ==
    (frame.op = "roots" /\ Len(frame.args.nodes) = 1
        /\ Len(frame.args.coef) = 1 /\ ~IsZero(frame.args.coef[1]))
    => Returned /\ frame.value = <<>>

\* C3 as claimed: the solver raises the dimension error, before building any
\* matrix, exactly when the three lengths differ or N < 1.
C3_AsClaimed ==
    frame.op = "lagrange_roots"
    => ((DimensionError /\ ~frame.built)
        <=> (~SameLengths(frame.args) \/ Len(frame.args.nodes) < 1))

\* C3 as amended: the solver raises the dimension error exactly when the
\* three lengths are not all equal, and then before building any matrix;
\* three empty arrays pass the check, and the call fails at line 39 with an
\* IndexError after the pencil was built.
C3_Amended ==
    frame.op = "lagrange_roots"
    => /\ DimensionError <=> ~SameLengths(frame.args)
       /\ DimensionError => ~frame.built /\ frame.C0 = NoMatrix
       /\ (SameLengths(frame.args) /\ Len(frame.args.nodes) = 0)
          => (frame.raised = "IndexError" /\ frame.line = 39 /\ frame.built)

C3_Witness ==
    /\ frame.op = "lagrange_roots"
    /\ Len(frame.args.nodes) = Len(frame.args.weights)
    /\ Len(frame.args.coef) # Len(frame.args.nodes)
    /\ DimensionError

\* C4: constructing a basis raises exactly when the nodes argument is not a
\* one-dimensional sequence.
C4_AsClaimed ==
    frame.op = "construct"
    => (frame.raised = "AssertionError" <=> Len(frame.args.shape) # 1)

\* C5: for pairwise distinct nodes X and every j, evaluate([X[j]]) returns
\* the single row that is the one-hot vector at index j.
C5_AsClaimed ==
    (frame.op = "vandermonde" /\ Distinct(basis.nodes)
        /\ frame.args.shape = <<1>>
        /\ \E j \in 1..Len(basis.nodes) :
              FromInt(frame.args.data[1]) = basis.nodes[j])
    => /\ Returned
       /\ frame.value =
            <<[j \in 1..Len(basis.nodes) |->
                IF basis.nodes[j] = FromInt(frame.args.data[1])
                THEN One ELSE Zero]>>

\* C6: a call that takes the fallback path either returns exactly N-1 finite
\* eigenvalues or fails with the invariant-violation error.
C6_AsClaimed ==
    (IsSolve /\ frame.path = "fallback")
    => \/ /\ Returned
          /\ Len(frame.value) = Len(frame.args.nodes) - 1
          /\ \A j \in 1..Len(frame.value) : IsFinite(frame.value[j])
       \/ InvariantViolation

\* C8: with an exact duplicate among the nodes some weight is non-finite, and
\* roots() on such a basis either fails with the invariant-violation error
\* or returns non-finite output.
C8_AsClaimed ==
    (basis.exists /\ ~Distinct(basis.nodes))
    => /\ \E j \in 1..Len(basis.weights) : ~IsFinite(basis.weights[j])
       /\ (frame.op = "roots" /\ SameLengths(frame.args))
          => \/ InvariantViolation
             \/ Returned /\ \E j \in 1..Len(frame.value) :
                               ~IsFinite(frame.value[j])

\* C9 as claimed: in phase normalization, a balanced entry A[1,0] that is
\* exactly zero or NaN disables deflation, prints the diagnostic and sends
\* the call down the fallback path; any other entry leaves use_deflation as
\* passed and A[1,0] becomes real and non-negative.
C9_AsClaimed ==
    (frame.op = "lagrange_roots" /\ frame.reachedPhase)
    => /\ (IsZero(frame.balanced10) \/ frame.balanced10.k = "nan")
          => /\ ~frame.deflation
             /\ frame.printed
             /\ frame.path = "fallback" /\ frame.line = 84
       /\ ~(IsZero(frame.balanced10) \/ frame.balanced10.k = "nan")
          => /\ frame.deflation = frame.args.deflation
             /\ IsRealNonNeg(frame.C0[1, 0])

\* C9 as amended: a NaN entry A[1,0] (a non-finite phase angle) disables
\* deflation, prints the diagnostic and sends the call down the fallback
\* path without aborting at that step; for every other entry, an exactly
\* zero one included (its angle is 0), use_deflation is left as passed,
\* nothing is printed and A[1,0] becomes real and non-negative.
C9_Amended ==
    (frame.op = "lagrange_roots" /\ frame.reachedPhase)
    => /\ frame.balanced10.k \in {"nan", "inf"}
          => /\ ~frame.deflation
             /\ frame.printed
             /\ frame.path = "fallback" /\ frame.line = 84
       /\ frame.balanced10.k \notin {"nan", "inf"}
          => /\ frame.deflation = frame.args.deflation
             /\ ~frame.printed
             /\ IsRealNonNeg(frame.C0[1, 0])
             /\ frame.args.deflation => frame.path = "deflation"

C9_Witness ==
    /\ frame.op = "lagrange_roots" /\ frame.reachedPhase
    /\ IsZero(frame.balanced10)
    /\ frame.args.deflation /\ frame.deflation
    /\ ~frame.printed /\ frame.path = "deflation"

\* C10: evaluate() and roots() calls, failed or not, leave the basis's nodes
\* and weights as construction set them and leave the coefficient array the
\* caller passed as it was.
C10_FrameEffect ==
    /\ basis.exists => basis = built
    /\ IsSolve => /\ frame.after.coef = frame.args.coef
                  /\ frame.after.weights = frame.args.weights
                  /\ frame.after.nodes = frame.args.nodes

C10_Witness ==
    /\ seen = {"vandermonde", "roots"}
    /\ frame.op = "roots"
    /\ frame.built
    /\ Len(basis.nodes) >= 2
    /\ basis = built

====
